---- MODULE Spec2Model ----
(***************************************************************************)
(* TaskSphere: the browser API client with its token-refresh interceptor   *)
(* (frontend/src/lib/api-client.ts, frontend/src/lib/auth-context.tsx) and *)
(* the credential issuer of the backend                                    *)
(* (backend/src/infrastructure/auth/auth.service.ts) with its validation   *)
(* middleware and error handler.                                           *)
(*                                                                         *)
(* The specifications of the module:                                       *)
(*   SpecClient  one browser page: requests sent through apiClient, the    *)
(*               response interceptor, AuthProvider's login / register /   *)
(*               logout / checkAuth, against a server summarised by the    *)
(*               answers its endpoints can give (FairSpecClient adds that  *)
(*               every network call settles);                              *)
(*   SpecAuth    the server: concurrent POST /auth/register and            *)
(*               POST /auth/login requests against the identity store;     *)
(*   SpecRenew   POST /auth/refresh and GET /auth/me against the tokens    *)
(*               issued so far (SpecRefreshInput: every cookie and body    *)
(*               of a refresh; SpecTransport: the bodies and cookies of    *)
(*               the five /auth routes);                                   *)
(*   SpecTask    the /tasks routes of TaskService                          *)
(*               (backend/src/infrastructure/task/task.service.ts), with   *)
(*               handlers interleaved between their queries.               *)
(***************************************************************************)
EXTENDS Integers, FiniteSets, Sequences, TLC

(***************************************************************************)
(* Bounds                                                                  *)
(***************************************************************************)
\* number of requests the page issues through apiClient
MaxReqs == 2
\* number of access tokens the server mints for the page
MaxTokens == 2
\* number of POST /auth/register and POST /auth/login requests the server
\* receives
MaxProcs == 2
\* last tick of the server's clock
MaxTime == 1

(***************************************************************************)
(* Client constants                                                        *)
(***************************************************************************)
\* `let accessToken: string | null = null`; access tokens are named by the
\* serial number of their minting at the server (1, 2, ...)
Null == 0

Reqs == 1 .. MaxReqs

VARIABLES
    \* ---- browser page (SpecClient) ----
    accessToken,    \* api-client.ts: module variable accessToken
    location,       \* window.location / router target
    authPc,         \* AuthProvider: "unmounted", or "done" once checkAuth ran
    req,            \* the axios requests of the page, by slot
    \* ---- server as seen by the page (SpecClient) ----
    minted,         \* number of access tokens minted so far
    expiredUpTo,    \* access tokens 1..expiredUpTo have expired
    session,        \* "valid": POST /auth/refresh would succeed; else "none"
    \* ---- history (SpecClient) ----
    refreshFailed,  \* a POST /auth/refresh of this session has failed
    \* ---- server (SpecAuth) ----
    users,          \* the identity store: prisma.user rows, by id
    proc,           \* the /auth requests being handled, with their responses
    now,            \* the server's clock
    \* ---- server (SpecRenew) ----
    config,         \* config.jwt: the secrets the server started with
    last,           \* the latest POST /auth/refresh or GET /auth/me, answered
    \* ---- server (SpecTask) ----
    tasks,          \* the task store: prisma.task rows, by id
    call,           \* the /tasks requests that are between two queries
    tres            \* the latest /tasks response

cvars == <<accessToken, location, authPc, req, minted, expiredUpTo,
           session, refreshFailed>>
srvvars == <<minted, expiredUpTo, session>>
avars == <<users, proc, now>>
rvars == <<config, last>>
tvars == <<tasks, call, tres>>
vars == <<cvars, avars, rvars, tvars>>

(***************************************************************************)
(* Client: requests                                                        *)
(***************************************************************************)
\* a request config that has not been created yet
IdleReq ==
    [st |-> "idle", kind |-> "none", retry |-> FALSE, hdr |-> Null,
     rres |-> 0, err |-> 0, nRefresh |-> 0, nReplay |-> 0]

\* request interceptor: `if (accessToken && config.headers)` the in-memory
\* token replaces the Authorization header of the config
AttachToken(token, hdr) == IF token # Null THEN token ELSE hdr

\* a new request config, passed through the request interceptor
NewReq(kind, token) ==
    [IdleReq EXCEPT !.st = "sent", !.kind = kind, !.hdr = AttachToken(token, Null)]

\* authenticate middleware + verifyAccessToken, as the page sees it: the
\* server accepts exactly the minted access tokens that have not expired
Valid(t) == t # Null /\ t <= minted /\ t > expiredUpTo

\* the requests whose POST /auth/refresh (the interceptor's `await`) is in
\* flight
RefreshInFlight == {r \in Reqs : req[r].st = "refreshing"}

\* the promise of request r is fulfilled (err = 0) or rejected: with the
\* request's own HTTP error (401; 500 stands for every other failure) or with
\* the refreshError (-1).  The config object is garbage from then on, and
\* only the record of what the interceptor did with it is kept.
Settled(r, err) ==
    [req EXCEPT ![r] = [@ EXCEPT !.st = IF err = 0 THEN "ok" ELSE "failed",
                                 !.err = err, !.hdr = Null, !.rres = 0,
                                 !.kind = "none"]]

\* mutant of ShouldRefresh: the _retry mark is not consulted
ShouldRefreshNoMark(status, retry) == status = 401

\* `error.response?.status === 401 && !originalRequest._retry`
ShouldRefresh(status, retry) == status = 401 /\ ~retry

(***************************************************************************)
(* Client: the callers of apiClient (auth-context.tsx)                     *)
(***************************************************************************)
\* The code that runs when request r settles for its caller: the promise
\* continuation of the caller, in the same event-loop task as the
\* interceptor.  ok: fulfilled or rejected; tok: the access token of a
\* login / register response body; rq, at, loc, rf: the values of req,
\* accessToken, location, refreshFailed the interceptor leaves behind.
OnSettled(r, ok, tok, rq, at, loc, rf) ==
    LET kind == req[r].kind IN
    CASE kind = "auth" ->
           \* AuthProvider.login / register: setAccessToken, router.push
           /\ req' = rq
           /\ accessToken' = IF ok THEN tok ELSE at
           /\ location' = IF ok THEN "/dashboard" ELSE loc
           /\ refreshFailed' = IF ok THEN FALSE ELSE rf
      [] kind = "logout" ->
           \* AuthProvider.logout: the finally block
           /\ req' = rq
           /\ accessToken' = Null
           /\ location' = "/login"
           /\ refreshFailed' = rf
      [] OTHER ->
           \* a page component (dashboard): no shared state is touched
           /\ req' = rq
           /\ accessToken' = at
           /\ location' = loc
           /\ refreshFailed' = rf

(***************************************************************************)
(* Server: data (schemas, identity store, tokens)                          *)
(***************************************************************************)
Procs == 1 .. MaxProcs

\* Strings are sequences of one-character strings.
UpperCase == {"A", "B", "C", "D", "E", "F", "G", "H", "I", "J", "K", "L", "M",
              "N", "O", "P", "Q", "R", "S", "T", "U", "V", "W", "X", "Y", "Z"}
LowerCase == {"a", "b", "c", "d", "e", "f", "g", "h", "i", "j", "k", "l", "m",
              "n", "o", "p", "q", "r", "s", "t", "u", "v", "w", "x", "y", "z"}
Digits == {"0", "1", "2", "3", "4", "5", "6", "7", "8", "9"}

\* the request bodies the clients send
EmailA == <<"a", "@", "x", ".", "i", "o">>
EmailAUpper == <<"A", "@", "x", ".", "i", "o">>
EmailBad == <<"a", "x", ".", "i", "o">>
Emails == {EmailA, EmailAUpper, EmailBad}
StrongPassword == <<"P", "a", "s", "s", "w", "0", "r", "d">>
WeakPassword == <<"p", "a", "s", "s">>
Passwords == {StrongPassword, WeakPassword}

\* passwordSchema: min(8), /[A-Z]/, /[a-z]/, /\d/
passwordSchema(pw) ==
    /\ Len(pw) >= 8
    /\ \E i \in 1 .. Len(pw) : pw[i] \in UpperCase
    /\ \E i \in 1 .. Len(pw) : pw[i] \in LowerCase
    /\ \E i \in 1 .. Len(pw) : pw[i] \in Digits

\* emailSchema, the check `.email()`: of zod's pattern, what strings of
\* letters, digits, "." and "@" exercise: one "@" after a non-empty local
\* part that neither starts nor ends with ".", then dot-separated labels,
\* the last one of two letters or more (the pattern ignores case)
emailSchema(e) ==
    \E at \in 2 .. Len(e), dot \in 1 .. Len(e) :
        /\ e[at] = "@"
        /\ \A i \in 1 .. Len(e) : i # at =>
               e[i] \in UpperCase \cup LowerCase \cup Digits \cup {"."}
        /\ e[1] # "." /\ e[at - 1] # "."
        /\ dot > at + 1 /\ e[dot] = "." /\ e[at + 1] # "."
        /\ Len(e) - dot >= 2
        /\ \A i \in (dot + 1) .. Len(e) : e[i] \in UpperCase \cup LowerCase

\* the letters, in the order String.prototype.toLowerCase pairs them
UpperLetters == <<"A", "B", "C", "D", "E", "F", "G", "H", "I", "J", "K", "L", "M",
                  "N", "O", "P", "Q", "R", "S", "T", "U", "V", "W", "X", "Y", "Z">>
LowerLetters == <<"a", "b", "c", "d", "e", "f", "g", "h", "i", "j", "k", "l", "m",
                  "n", "o", "p", "q", "r", "s", "t", "u", "v", "w", "x", "y", "z">>

\* emailSchema, the transform `.toLowerCase()`
toLowerCase(e) ==
    [i \in 1 .. Len(e) |->
        IF e[i] \in UpperCase
        THEN LowerLetters[CHOOSE k \in 1 .. 26 : UpperLetters[k] = e[i]]
        ELSE e[i]]

\* emailSchema, the transform `.trim()`
RECURSIVE trim(_)
trim(e) ==
    IF e # <<>> /\ Head(e) = " " THEN trim(Tail(e))
    ELSE IF e # <<>> /\ e[Len(e)] = " " THEN trim(SubSeq(e, 1, Len(e) - 1))
    ELSE e

\* the value emailSchema parses a valid email to.  validateSchema awaits
\* schema.parseAsync and drops what it returns: the handlers read req.body
\* as it was sent (Register, Login).
emailSchemaValue(e) == trim(toLowerCase(e))

\* registerSchema: body.email and body.password (body.name is optional and
\* reaches nothing but the stored row; it is left out)
registerSchema(body) == emailSchema(body.email) /\ passwordSchema(body.password)

\* loginSchema: body.email, and body.password `min(1)`
loginSchema(body) == emailSchema(body.email) /\ Len(body.password) >= 1

\* bcrypt.hash: the stored string is not the password
hashPassword(pw) == <<"$2b$">> \o pw

\* bcrypt.compare
verifyPassword(pw, hash) == hash = hashPassword(pw)

\* `findUnique` found no row
NoUser == [id |-> 0, email |-> <<>>, password |-> <<>>, role |-> "none",
           isActive |-> FALSE]

\* prisma.user.findUnique({ where: { email } }): the store compares emails
\* as they are written
findUnique(email) ==
    IF \E i \in 1 .. Len(users) : users[i].email = email
    THEN users[CHOOSE i \in 1 .. Len(users) : users[i].email = email]
    ELSE NoUser

\* the row prisma.user.create inserts: a fresh id, and the defaults of the
\* User model (role USER, isActive true)
NewUser(email, hashedPassword) ==
    [id |-> Len(users) + 1, email |-> email, password |-> hashedPassword,
     role |-> "USER", isActive |-> TRUE]

\* config.jwt of a deployment whose JWT_SECRET and REFRESH_TOKEN_SECRET differ
SeparateSecrets == [secret |-> "key-1", refreshSecret |-> "key-2"]

\* config.jwt of a deployment that sets both variables to one value:
\* getEnvVariable wants them non-empty, validateProductionSecrets wants each
\* long and without 'change-this', nothing compares them
SharedSecret == [secret |-> "key-1", refreshSecret |-> "key-1"]

\* config.jwt.secret and config.jwt.refreshSecret
JwtSecret == config.secret
RefreshSecret == config.refreshSecret

\* config.jwt.expiresIn ('15m') and config.jwt.refreshExpiresIn ('7d'), in
\* ticks of the clock
AccessTtl == 1
RefreshTtl == 2

\* no token
NoToken == [userId |-> 0, email |-> <<>>, role |-> "none", key |-> "none",
            iat |-> 0, exp |-> 0]

\* jwt.sign(payload, secret, { expiresIn }): the payload with iat and exp,
\* under a signature only the secret produces
Sign(payload, secret, ttl) ==
    [userId |-> payload.userId, email |-> payload.email, role |-> payload.role,
     key |-> secret, iat |-> now, exp |-> now + ttl]

\* mutant of generateAccessToken: signs with the refresh secret
generateAccessTokenWrongKey(payload) == Sign(payload, RefreshSecret, AccessTtl)

generateAccessToken(payload) == Sign(payload, JwtSecret, AccessTtl)

generateRefreshToken(payload) == Sign(payload, RefreshSecret, RefreshTtl)

\* the TokenPayload of a user row
PayloadOf(user) == [userId |-> user.id, email |-> user.email, role |-> user.role]

\* jwt.verify(token, secret): a string that is no JWT or whose signature the
\* secret does not produce throws JsonWebTokenError; then `exp` is compared
\* with the clock and a token at or past it throws TokenExpiredError;
\* otherwise the payload is returned
jwtVerify(token, secret) ==
    CASE token.key # secret -> [error |-> "JsonWebTokenError", payload |-> NoToken]
      [] now >= token.exp -> [error |-> "TokenExpiredError", payload |-> NoToken]
      [] OTHER -> [error |-> "none", payload |-> token]

\* mutant of IsTokenExpiredError: no error is taken for an expiry
IsTokenExpiredErrorNever(error) == FALSE

\* `error instanceof jwt.TokenExpiredError`
IsTokenExpiredError(error) == error = "TokenExpiredError"

\* `error instanceof jwt.JsonWebTokenError`: TokenExpiredError is a subclass
\* of JsonWebTokenError in jsonwebtoken
IsJsonWebTokenError(error) == error \in {"JsonWebTokenError", "TokenExpiredError"}

\* verifyAccessToken: the payload jwt.verify returns, or the AppError thrown
verifyAccessToken(token) ==
    LET verified == jwtVerify(token, JwtSecret)
    IN  IF verified.error = "none"
        THEN [status |-> 200, message |-> "", claims |-> verified.payload]
        ELSE IF IsTokenExpiredError(verified.error)
             THEN [status |-> 401, message |-> "Access token has expired",
                   claims |-> NoToken]
             ELSE [status |-> 401, message |-> "Invalid access token",
                   claims |-> NoToken]

\* nothing has been verified
NoVerdict == [status |-> 0, message |-> "", claims |-> NoToken]

\* a response that sets no cookie
NoCookie ==
    [name |-> "none", value |-> NoToken, path |-> "none", httpOnly |-> FALSE]

\* a response without `data`
NoData == <<>>

\* a request that has not been received yet
IdleProc ==
    [pc |-> "idle", op |-> "none", email |-> <<>>, password |-> <<>>,
     user |-> NoUser, status |-> 0, message |-> "",
     accessToken |-> NoToken, refreshToken |-> NoToken, verdict |-> NoVerdict,
     json |-> NoData, resCookie |-> NoCookie]

\* no POST /auth/refresh or GET /auth/me has been answered
NoResponse ==
    [op |-> "none", via |-> "none", token |-> NoToken, status |-> 0,
     message |-> "", accessToken |-> NoToken, setCookie |-> NoToken,
     claims |-> NoToken, ran |-> FALSE, before |-> NoToken,
     cookie |-> NoToken, body |-> NoToken,
     json |-> NoData, resCookie |-> NoCookie]

(***************************************************************************)
(* Task service: data                                                      *)
(***************************************************************************)
\* rows prisma.task.create makes in one behaviour
MaxTasks == 1
\* /tasks requests the server handles at the same time
MaxCalls == 2

Calls == 1 .. MaxCalls

\* the userId of the access claims authenticate attached to the request
\* (router.use(authenticate) lets no other request reach a task handler)
UserIds == {1, 2}

\* enum TaskStatus
TaskStatusEnum == {"TODO", "IN_PROGRESS", "COMPLETED", "ARCHIVED"}

\* completedAt DateTime?: the column holds null
NullDate == -1

\* a key the request body does not have
Absent == "absent"

\* no row under this id: never created, or deleted;
\* a row has the columns the handlers decide on; description, priority and
\* dueDate go through the handlers as title does
NoTask ==
    [userId |-> 0, title |-> Absent, status |-> Absent,
     completedAt |-> NullDate]

\* prisma.task.findFirst({ where: { id } }) on the store as it is
findById(taskId) ==
    IF taskId \in 1 .. Len(tasks) THEN tasks[taskId] ELSE NoTask

\* prisma.task.findMany / count ({ where: { userId } }): the ids of the rows
findMany(userId) ==
    {i \in 1 .. Len(tasks) : tasks[i] # NoTask /\ tasks[i].userId = userId}

\* bodies updateTaskSchema lets through, keys it does not know stripped:
\* one with a status, one with a title
UpdateBodies ==
    [status : TaskStatusEnum, title : {Absent}]
        \cup {[status |-> Absent, title |-> "b"]}

\* updateTask without the else branch that sets completedAt to null
updateDataNeverCleared(data, at) ==
    [status |-> data.status, title |-> data.title,
     hasCompletedAt |-> data.status = "COMPLETED",
     completedAt |-> IF data.status = "COMPLETED" THEN at ELSE NullDate]

\* updateTask: the data handed to prisma.task.update; hasCompletedAt tells
\* whether the key completedAt was set
updateData(data, at) ==
    [status |-> data.status, title |-> data.title,
     hasCompletedAt |-> data.status # Absent,
     completedAt |-> IF data.status = "COMPLETED" THEN at ELSE NullDate]

\* prisma.task.update: the row after the write
updatedRow(task, upd) ==
    [userId |-> task.userId,
     title |-> IF upd.title # Absent THEN upd.title ELSE task.title,
     status |-> IF upd.status # Absent THEN upd.status ELSE task.status,
     completedAt |-> IF upd.hasCompletedAt THEN upd.completedAt
                     ELSE task.completedAt]

\* toggleTaskStatus: the switch on the status read
nextStatus(status) ==
    CASE status = "TODO" -> "IN_PROGRESS"
      [] status = "IN_PROGRESS" -> "COMPLETED"
      [] status = "COMPLETED" -> "TODO"
      [] status = "ARCHIVED" -> "TODO"
      [] OTHER -> "TODO"

\* a handler that is not between two queries
IdleCall ==
    [pc |-> "idle", op |-> "none", userId |-> 0, taskId |-> 0,
     data |-> [status |-> Absent, title |-> Absent]]

\* the task service, at rest with an empty store
TaskParked ==
    /\ tasks = <<>>
    /\ call = [c \in Calls |-> IdleCall]
    /\ tres = [op |-> "none", userId |-> 0, taskId |-> 0, status |-> 0,
               message |-> "", ids |-> {}]

\* the server part, at rest
AuthParked ==
    /\ users = <<>>
    /\ proc = [p \in Procs |-> IdleProc]
    /\ now = 0
    /\ config = SeparateSecrets
    /\ last = NoResponse
    /\ TaskParked

InitClient ==
    /\ accessToken = Null
    /\ location = "/"
    /\ authPc = "unmounted"
    /\ req = [r \in Reqs |-> IdleReq]
    /\ minted = 0
    /\ expiredUpTo = 0
    /\ session \in {"none", "valid"}  \* the cookie outlives page loads
    /\ refreshFailed = FALSE
    /\ AuthParked

\* lowest request slot not used yet
FreeSlot == CHOOSE r \in Reqs :
                req[r].st = "idle" /\ \A s \in Reqs : s < r => req[s].st # "idle"

\* AuthProvider's mount effect, checkAuth.  The page has just loaded, so
\* the module variable accessToken still has its initial value null and
\* `if (token)` skips the body; only setLoading(false) runs.
CheckAuth ==
    /\ UNCHANGED <<avars, rvars, tvars>>
    /\ authPc = "unmounted"
    /\ accessToken = Null
    /\ authPc' = "done"
    /\ UNCHANGED <<accessToken, location, req, minted, expiredUpTo, session,
                   refreshFailed>>

\* A component calls apiClient: a task endpoint ("api"), or AuthProvider's
\* login / register ("auth": the two have the same body and differ in the
\* endpoint only) or logout.  The effects of the first commit run in one
\* event-loop task, AuthProvider's among them, so no response is handled
\* and no form is submitted before checkAuth has run.
Send(kind) ==
    /\ UNCHANGED <<avars, rvars, tvars>>
    /\ authPc # "unmounted"
    /\ \E r \in Reqs : req[r].st = "idle"
    /\ req' = [req EXCEPT ![FreeSlot] = NewReq(kind, accessToken)]
    /\ UNCHANGED <<accessToken, location, authPc, minted, expiredUpTo,
                   session, refreshFailed>>

(***************************************************************************)
(* Client: the response interceptor (api-client.ts)                        *)
(***************************************************************************)
\* mutant of StoreRenewed: the renewed token is not stored
StoreRenewedNot(newTok) == accessToken

\* `setAccessToken(response.data.data.accessToken)` on the success path
StoreRenewed(newTok) == newTok

\* mutant of ClearedToken: the failure path leaves the token in place
ClearedTokenKept == accessToken

\* `setAccessToken(null)` on the failure path
ClearedToken == Null

\* `if (typeof window !== 'undefined') window.location.href = '/login'`;
\* requests are only issued from effects and event handlers of client
\* components, which run in the browser
RedirectToLogin == "/login"

\* the answers the server can give to request r: 200/201, 401, or any other
\* failure (4xx, 5xx, no response at all)
CanOk(r) ==
    CASE req[r].kind = "auth" -> TRUE           \* credentials accepted
      [] OTHER -> Valid(req[r].hdr)             \* routes behind `authenticate`

Can401(r) ==
    CASE req[r].kind = "auth" -> TRUE           \* 'Invalid email or password'
      [] OTHER -> ~Valid(req[r].hdr)

\* The server answers request r with success and the page handles the
\* response: the interceptor passes it on and the caller's continuation runs.
RespondOk(r) ==
    /\ UNCHANGED <<avars, rvars, tvars>>
    /\ req[r].st = "sent"
    /\ CanOk(r)
    /\ req[r].kind = "auth" => minted < MaxTokens
    /\ LET k == req[r].kind
           tok == IF k = "auth" THEN minted + 1 ELSE Null
       IN  /\ minted' = IF k = "auth" THEN minted + 1 ELSE minted
           /\ session' = CASE k = "auth" -> "valid"      \* res.cookie
                           [] k = "logout" -> "none"     \* res.clearCookie
                           [] OTHER -> session
           /\ UNCHANGED <<expiredUpTo, authPc>>
           /\ OnSettled(r, TRUE, tok, Settled(r, 0),
                        accessToken, location, refreshFailed)

\* The server answers request r with an error and the page handles it: the
\* response interceptor up to its await, or up to its final reject and the
\* caller's continuation.
RespondError(r, status) ==
    /\ UNCHANGED <<avars, rvars, tvars>>
    /\ req[r].st = "sent"
    /\ status = 401 => Can401(r)
    /\ UNCHANGED <<srvvars, authPc>>
    /\ IF ShouldRefresh(status, req[r].retry)
       THEN \* `originalRequest._retry = true; await axios.post(.../auth/refresh)`
            /\ req' = [req EXCEPT ![r].st = "refreshing",
                                  ![r].retry = TRUE,
                                  ![r].rres = 0,
                                  ![r].nRefresh = @ + 1]
            /\ UNCHANGED <<accessToken, location, refreshFailed>>
       ELSE \* `return Promise.reject(error)`
            OnSettled(r, FALSE, Null, Settled(r, status),
                      accessToken, location, refreshFailed)

\* The server handles the interceptor's POST /auth/refresh for request r:
\* AuthService.refreshToken mints a token, or the call fails (400 no cookie,
\* 401 invalid or expired, 403 deactivated, or no response).
ServerRefresh(r) ==
    /\ UNCHANGED <<avars, rvars, tvars>>
    /\ req[r].st = "refreshing"
    /\ req[r].rres = 0
    /\ \/ /\ session = "valid"
          /\ minted < MaxTokens
          /\ minted' = minted + 1
          /\ req' = [req EXCEPT ![r].rres = minted + 1]
       \/ /\ req' = [req EXCEPT ![r].rres = -1]
          /\ UNCHANGED minted
    /\ UNCHANGED <<accessToken, location, authPc, expiredUpTo, session,
                   refreshFailed>>

\* The interceptor's `await axios.post(...)` settles for request r: the rest
\* of the try block, or the catch block and the caller's continuation.
RefreshSettle(r) ==
    /\ UNCHANGED <<avars, rvars, tvars>>
    /\ req[r].st = "refreshing"
    /\ req[r].rres # 0
    /\ UNCHANGED <<srvvars, authPc>>
    /\ IF req[r].rres > 0
       THEN \* store the token, set the header, `return apiClient(originalRequest)`
            /\ accessToken' = StoreRenewed(req[r].rres)
            /\ req' = [req EXCEPT ![r].st = "sent",
                                  ![r].hdr = AttachToken(accessToken', req[r].rres),
                                  ![r].nReplay = @ + 1]
            /\ UNCHANGED <<location, refreshFailed>>
       ELSE \* clear the token, redirect, `return Promise.reject(refreshError)`
            OnSettled(r, FALSE, Null, Settled(r, -1),
                      ClearedToken, RedirectToLogin, TRUE)

(***************************************************************************)
(* Client: the server's side of the session                                *)
(***************************************************************************)
\* the oldest unexpired access token reaches its `exp` (all access tokens
\* have the same lifetime, so they expire in the order they were minted)
ExpireAccess ==
    /\ UNCHANGED <<avars, rvars, tvars>>
    /\ expiredUpTo < minted
    /\ expiredUpTo' = expiredUpTo + 1
    /\ UNCHANGED <<accessToken, location, authPc, req, minted, session,
                   refreshFailed>>

\* the refresh token reaches its `exp`, or the account is deactivated or
\* deleted: POST /auth/refresh fails from now on, as it does without a cookie
SessionEnds ==
    /\ UNCHANGED <<avars, rvars, tvars>>
    /\ session = "valid"
    /\ session' = "none"
    /\ UNCHANGED <<accessToken, location, authPc, req, minted,
                   expiredUpTo, refreshFailed>>

\* the network steps of request r; at most one of them is enabled at a time
Network(r) ==
    \/ RespondOk(r)
    \/ \E status \in {401, 500} : RespondError(r, status)
    \/ ServerRefresh(r)
    \/ RefreshSettle(r)

NextClient ==
    \/ CheckAuth
    \/ \E k \in {"api", "auth", "logout"} : Send(k)
    \/ \E r \in Reqs : RespondOk(r)
    \/ \E r \in Reqs, status \in {401, 500} : RespondError(r, status)
    \/ \E r \in Reqs : ServerRefresh(r)
    \/ \E r \in Reqs : RefreshSettle(r)
    \/ ExpireAccess
    \/ SessionEnds

SpecClient == InitClient /\ [][NextClient]_vars

\* every network call eventually settles
FairSpecClient == SpecClient /\ \A r \in Reqs : WF_vars(Network(r))

Spec == SpecClient

(***************************************************************************)
(* Server: POST /auth/register, POST /auth/login, the access check         *)
(***************************************************************************)
\* new AppError(message, statusCode)
AppError(statusCode, message) ==
    [name |-> "AppError", statusCode |-> statusCode, message |-> message]

\* what prisma.user.create throws when the unique index on User.email
\* rejects the row (code P2002)
UniqueConstraintError ==
    [name |-> "PrismaClientKnownRequestError", statusCode |-> 0,
     message |-> "Unique constraint failed on the fields: (email)"]

\* errorHandler: the status and message of the error response
errorHandler(error) ==
    LET byDefault == [status |-> 500, message |-> "Internal Server Error"]
        appError == IF error.name = "AppError"
                    THEN [status |-> error.statusCode, message |-> error.message]
                    ELSE byDefault
    IN  IF error.name = "PrismaClientKnownRequestError"
        THEN [status |-> 400, message |-> "Database operation failed"]
        ELSE appError

\* validateSchema's `throw AppError.validationError('Validation failed', errors)`
ValidationError == AppError(422, "Validation failed")

\* register: `throw AppError.conflict('User with this email already exists')`
ConflictError == AppError(409, "User with this email already exists")

\* login: `if (!user) throw AppError.unauthorized('Invalid email or password')`
UnknownEmailError == AppError(401, "Invalid email or password")

\* login: `throw AppError.forbidden('Account has been deactivated')`
DeactivatedError == AppError(403, "Account has been deactivated")

\* mutant of WrongPasswordError: a message of its own
WrongPasswordErrorTelling == AppError(401, "Invalid password")

\* login: `if (!isPasswordValid) throw AppError.unauthorized('Invalid email or password')`
WrongPasswordError == AppError(401, "Invalid email or password")

\* request p is received with this body
Received(p, op, body) ==
    [proc[p] EXCEPT !.op = op, !.email = body.email, !.password = body.password]

\* the error response of request p
Failed(rec, error) ==
    [rec EXCEPT !.pc = "done", !.status = errorHandler(error).status,
                !.message = errorHandler(error).message]

\* mutant of AuthUser: the row as the store holds it
AuthUserWholeRow(user) == user

\* the `user` of the result of AuthService.register and AuthService.login
\* (name left out, as in the row)
AuthUser(user) == [id |-> user.id, email |-> user.email, role |-> user.role]

\* mutant of AuthData: the renewal token is in the body too
AuthDataWithRefreshToken(result) ==
    [user |-> result.user, accessToken |-> result.accessToken,
     refreshToken |-> result.refreshToken]

\* the `data` of the controller's response to register and login
AuthData(result) == [user |-> result.user, accessToken |-> result.accessToken]

\* res.cookie('refreshToken', token, { httpOnly, ..., path: '/api/v1/auth/refresh' })
refreshTokenCookie(token) ==
    [name |-> "refreshToken", value |-> token,
     path |-> "/api/v1/auth/refresh", httpOnly |-> TRUE]

\* the success response of request p for this user row: generateTokens, then
\* the controller's res.cookie(refreshToken) and res.status(status).json(...)
Succeeded(rec, user, status, message) ==
    LET result == [user |-> AuthUser(user),
                   accessToken |-> generateAccessToken(PayloadOf(user)),
                   refreshToken |-> generateRefreshToken(PayloadOf(user))]
    IN  [rec EXCEPT !.pc = "done", !.user = user, !.status = status,
                    !.message = message,
                    !.accessToken = result.accessToken,
                    !.refreshToken = result.refreshToken,
                    !.json = AuthData(result),
                    !.resCookie = refreshTokenCookie(result.refreshToken)]

\* requests are numbered in the order the server receives them
NextToArrive(p) == proc[p].pc = "idle" /\ \A q \in Procs : q < p => proc[q].pc # "idle"

InitAuth ==
    /\ accessToken = Null
    /\ location = "/"
    /\ authPc = "unmounted"
    /\ req = [r \in Reqs |-> IdleReq]
    /\ minted = 0
    /\ expiredUpTo = 0
    /\ session = "none"
    /\ refreshFailed = FALSE
    \* the store is empty, or holds the row of an earlier registration
    /\ users \in {<<>>,
                  <<[id |-> 1, email |-> EmailA,
                     password |-> hashPassword(StrongPassword),
                     role |-> "USER", isActive |-> TRUE]>>}
    /\ proc = [p \in Procs |-> IdleProc]
    /\ now = 0
    /\ config = SeparateSecrets
    /\ last = NoResponse
    /\ TaskParked

\* POST /auth/register up to the await of prisma.user.create: validateRegister
\* (the parsed body is dropped; req.body goes on as it was sent), then
\* AuthService.register's uniqueness check
Register(p, body) ==
    /\ NextToArrive(p)
    /\ UNCHANGED <<cvars, rvars, tvars, users, now>>
    /\ LET rec == Received(p, "register", body)
           existingUser == findUnique(body.email)
       IN  proc' = [proc EXCEPT ![p] =
               IF ~registerSchema(body) THEN Failed(rec, ValidationError)
               ELSE IF existingUser # NoUser
                    THEN Failed([rec EXCEPT !.user = existingUser], ConflictError)
                    ELSE [rec EXCEPT !.pc = "create"]]

\* the rest of POST /auth/register: prisma.user.create, generateTokens and
\* the controller's 201 response; or the store's unique index rejects the
\* row, and the error goes to errorHandler
RegisterCreate(p) ==
    /\ proc[p].pc = "create"
    /\ UNCHANGED <<cvars, rvars, tvars, now>>
    /\ IF findUnique(proc[p].email) # NoUser
       THEN /\ proc' = [proc EXCEPT ![p] = Failed(@, UniqueConstraintError)]
            /\ UNCHANGED users
       ELSE LET user == NewUser(proc[p].email, hashPassword(proc[p].password))
            IN  /\ users' = Append(users, user)
                /\ proc' = [proc EXCEPT ![p] =
                       Succeeded(@, user, 201, "User registered successfully")]

\* mutant of AccountDeactivated: login never finds an account deactivated
AccountDeactivatedNever(user) == FALSE

\* login: `if (!user.isActive)`
AccountDeactivated(user) == ~user.isActive

\* POST /auth/login: validateLogin, AuthService.login, the controller's 200
\* response
Login(p, body) ==
    /\ NextToArrive(p)
    /\ UNCHANGED <<cvars, rvars, tvars, users, now>>
    /\ LET rec == Received(p, "login", body)
           user == findUnique(body.email)
           found == [rec EXCEPT !.user = user]
       IN  proc' = [proc EXCEPT ![p] =
               IF ~loginSchema(body) THEN Failed(rec, ValidationError)
               ELSE IF user = NoUser THEN Failed(found, UnknownEmailError)
               ELSE IF AccountDeactivated(user) THEN Failed(found, DeactivatedError)
               ELSE IF ~verifyPassword(body.password, user.password)
                    THEN Failed(found, WrongPasswordError)
                    ELSE Succeeded(rec, user, 200, "Login successful")]

\* no Authorization header
NoHeader == [scheme |-> "none", token |-> NoToken]

\* mutant of HasBearer: any Authorization header will do
HasBearerAnyScheme(header) == header.scheme # "none"

\* `authHeader && authHeader.startsWith('Bearer ')`
HasBearer(header) == header.scheme = "Bearer"

\* the `authenticate` middleware: the error it passes to next, or the
\* payload it puts in req.user
authenticate(header) ==
    IF ~HasBearer(header)
    THEN [status |-> 401, message |-> "No token provided", claims |-> NoToken]
    ELSE verifyAccessToken(header.token)

\* the `authenticate` middleware, for a request that carries the access
\* token of response p as its Bearer token, or no Authorization header
Authenticate(p, withHeader) ==
    /\ proc[p].pc = "done"
    /\ proc[p].accessToken # NoToken
    /\ UNCHANGED <<cvars, rvars, tvars, users, now>>
    /\ proc' = [proc EXCEPT ![p].verdict =
           authenticate(IF withHeader
                        THEN [scheme |-> "Bearer", token |-> proc[p].accessToken]
                        ELSE NoHeader)]

\* an administrator clears User.isActive of a row in the store
Deactivate(i) ==
    /\ i \in 1 .. Len(users)
    /\ users[i].isActive
    /\ users' = [users EXCEPT ![i].isActive = FALSE]
    /\ UNCHANGED <<cvars, rvars, tvars, proc, now>>

\* time passes
Tick ==
    /\ now < MaxTime
    /\ now' = now + 1
    /\ UNCHANGED <<cvars, rvars, tvars, users, proc>>

NextAuth ==
    \/ \E p \in Procs, e \in Emails, pw \in Passwords :
           Register(p, [email |-> e, password |-> pw])
    \/ \E p \in Procs : RegisterCreate(p)
    \/ \E p \in Procs, e \in Emails, pw \in Passwords :
           Login(p, [email |-> e, password |-> pw])
    \/ \E p \in Procs, withHeader \in BOOLEAN : Authenticate(p, withHeader)
    \/ \E i \in 1 .. (MaxProcs + 1) : Deactivate(i)
    \/ Tick

SpecAuth == InitAuth /\ [][NextAuth]_vars

(***************************************************************************)
(* Server: POST /auth/refresh and GET /auth/me (SpecRenew)                 *)
(***************************************************************************)
\* prisma.user.findUnique({ where: { id } }); a deleted row leaves NoUser
\* in its place
findUniqueById(id) ==
    IF id \in 1 .. Len(users) /\ users[id] # NoUser THEN users[id] ELSE NoUser

\* an administrator changes User.role of a row of the store
ChangeRole(i) ==
    /\ i \in 1 .. Len(users)
    /\ users[i] # NoUser
    /\ users[i].role = "USER"
    /\ users' = [users EXCEPT ![i].role = "ADMIN"]
    /\ UNCHANGED <<cvars, rvars, tvars, proc, now>>

\* the row of an earlier registration
EarlierUser ==
    [id |-> 1, email |-> EmailA, password |-> hashPassword(StrongPassword),
     role |-> "USER", isActive |-> TRUE]

\* the tokens of a login of that identity before the clock started, the
\* renewal token one tick short of its expiry
EarlierRefreshToken ==
    PayloadOf(EarlierUser) @@ [key |-> RefreshSecret, iat |-> 1 - RefreshTtl,
                                exp |-> 1]

EarlierAccessToken ==
    PayloadOf(EarlierUser) @@ [key |-> JwtSecret, iat |-> 1 - RefreshTtl,
                                exp |-> 1 - RefreshTtl + AccessTtl]

\* a token made without the server's secrets, for the identity of id 1
ForgedToken ==
    [userId |-> 1, email |-> EmailA, role |-> "ADMIN", key |-> "key-0",
     iat |-> 0, exp |-> MaxTime + RefreshTtl]

\* a string that is no JWT
MalformedToken == [NoToken EXCEPT !.key = "malformed"]

\* the tokens the server's responses have handed out
IssuedTokens ==
    ({proc[p].accessToken : p \in Procs} \cup {proc[p].refreshToken : p \in Procs}
        \cup {last.accessToken}) \ {NoToken}

\* the tokens a client can present
PresentableTokens ==
    IssuedTokens \cup {EarlierRefreshToken, EarlierAccessToken,
                       ForgedToken, MalformedToken}

\* validateRefreshToken: `throw AppError.badRequest('Refresh token is required')`
MissingRefreshError == AppError(400, "Refresh token is required")

\* refreshToken: `throw AppError.unauthorized('Invalid refresh token')`
InvalidRefreshError == AppError(401, "Invalid refresh token")

\* refreshToken: `throw AppError.unauthorized('Refresh token has expired')`
ExpiredRefreshError == AppError(401, "Refresh token has expired")

\* nothing was thrown
NoError == AppError(0, "")

\* mutant of RefreshPayload: the role is not the row's
RefreshPayloadOtherRole(user) == [PayloadOf(user) EXCEPT !.role = "ADMIN"]

\* refreshToken: the payload of the new access token, read from the row
RefreshPayload(user) == PayloadOf(user)

\* mutant of Inactive: the active flag is not looked at
InactiveNever(user) == FALSE

\* refreshToken: `if (!user.isActive)`
Inactive(user) == ~user.isActive

\* AuthService.refreshToken, the try block: what it throws (the class of the
\* error, and the AppError if it is one) or the access token it returns
refreshTokenTry(token) ==
    LET verified == jwtVerify(token, RefreshSecret)
        user == findUniqueById(verified.payload.userId)
        thrown(class, error) ==
            [thrown |-> class, error |-> error, accessToken |-> NoToken]
    IN  IF verified.error # "none" THEN thrown(verified.error, NoError)
        ELSE IF user = NoUser THEN thrown("AppError", InvalidRefreshError)
        ELSE IF Inactive(user) THEN thrown("AppError", DeactivatedError)
        ELSE [thrown |-> "none", error |-> NoError,
              accessToken |-> generateAccessToken(RefreshPayload(user))]

\* AuthService.refreshToken: the try block, then the catch block with its
\* instanceof tests in the order they are written
refreshToken(token) ==
    LET try == refreshTokenTry(token)
        throw(error) == [error |-> error, accessToken |-> NoToken]
    IN  IF try.thrown = "none"
        THEN [error |-> NoError, accessToken |-> try.accessToken]
        ELSE IF IsJsonWebTokenError(try.thrown) THEN throw(InvalidRefreshError)
        ELSE IF IsTokenExpiredError(try.thrown) THEN throw(ExpiredRefreshError)
        ELSE throw(try.error)

\* mutant of RefreshCookie: the response rotates the renewal token
RefreshCookieRotated(user) == generateRefreshToken(PayloadOf(user))

\* AuthController.refreshToken calls no res.cookie: the response sets none
RefreshCookie(user) == NoToken

\* the access token the preceding call returned, if it was a successful
\* POST /auth/refresh with this token
ReturnedBefore(token) ==
    IF last.op = "refresh" /\ last.status = 200 /\ last.token = token
    THEN last.accessToken
    ELSE NoToken

\* mutant of validateRefreshToken: the body's token goes before the cookie's
validateRefreshTokenBodyFirst(cookieToken, bodyToken) ==
    IF bodyToken # NoToken
    THEN [error |-> NoError, via |-> "body", refreshToken |-> bodyToken]
    ELSE IF cookieToken = NoToken
         THEN [error |-> MissingRefreshError, via |-> "none",
               refreshToken |-> NoToken]
         ELSE [error |-> NoError, via |-> "cookie", refreshToken |-> cookieToken]

\* validateRefreshToken: req.body.refreshToken becomes the cookie's token if
\* there is one, stays the body's token otherwise, and the request fails if
\* there is neither
validateRefreshToken(cookieToken, bodyToken) ==
    IF cookieToken # NoToken
    THEN [error |-> NoError, via |-> "cookie", refreshToken |-> cookieToken]
    ELSE IF bodyToken = NoToken
         THEN [error |-> MissingRefreshError, via |-> "none",
               refreshToken |-> NoToken]
         ELSE [error |-> NoError, via |-> "body", refreshToken |-> bodyToken]

\* POST /auth/refresh with these tokens in its cookie and its body (NoToken:
\* none): validateRefreshToken, then AuthController.refreshToken and
\* AuthService.refreshToken; errors go to errorHandler
Refresh(cookieToken, bodyToken) ==
    /\ UNCHANGED <<cvars, avars, config, tvars>>
    /\ LET validated == validateRefreshToken(cookieToken, bodyToken)
           presented == validated.refreshToken
           result == IF validated.error # NoError
                     THEN [error |-> validated.error, accessToken |-> NoToken]
                     ELSE refreshToken(presented)
           response == [NoResponse EXCEPT !.op = "refresh",
                                          !.via = validated.via,
                                          !.token = presented,
                                          !.cookie = cookieToken,
                                          !.body = bodyToken,
                                          !.before = ReturnedBefore(presented)]
       IN  last' = IF result.error # NoError
                   THEN [response EXCEPT
                            !.status = errorHandler(result.error).status,
                            !.message = errorHandler(result.error).message]
                   ELSE [response EXCEPT
                            !.status = 200,
                            !.message = "Token refreshed successfully",
                            !.accessToken = result.accessToken,
                            !.setCookie =
                                RefreshCookie(findUniqueById(presented.userId)),
                            !.json = [accessToken |-> result.accessToken],
                            !.resCookie =
                                LET token == RefreshCookie(
                                                 findUniqueById(presented.userId))
                                IN  IF token = NoToken THEN NoCookie
                                    ELSE refreshTokenCookie(token)]

\* AuthService.getUserById: the row's id, email, role and isActive (name,
\* createdAt and updatedAt left out, as in the row)
getUserById(id) ==
    LET user == findUniqueById(id)
    IN  IF user = NoUser THEN NoUser
        ELSE [id |-> user.id, email |-> user.email, role |-> user.role,
              isActive |-> user.isActive]

\* GET /auth/me: authenticate, then AuthController.getCurrentUser with
\* AuthService.getUserById
GetMe(header) ==
    /\ UNCHANGED <<cvars, avars, config, tvars>>
    /\ LET verdict == authenticate(header)
           user == findUniqueById(verdict.claims.userId)
           response == [NoResponse EXCEPT !.op = "me", !.via = header.scheme,
                                          !.token = header.token]
       IN  last' = IF verdict.status # 200
                   THEN [response EXCEPT !.status = verdict.status,
                                         !.message = verdict.message]
                   ELSE [response EXCEPT
                            !.status = IF user = NoUser THEN 404 ELSE 200,
                            !.message = IF user = NoUser THEN "User not found"
                                        ELSE "",
                            !.claims = verdict.claims,
                            !.ran = TRUE,
                            !.json = IF user = NoUser THEN NoData
                                     ELSE [user |->
                                              getUserById(verdict.claims.userId)]]

\* POST /auth/logout: authenticate, then AuthController.logout with its
\* res.clearCookie('refreshToken', { ..., path: '/api/v1/auth/refresh' })
Logout(header) ==
    /\ UNCHANGED <<cvars, avars, config, tvars>>
    /\ LET verdict == authenticate(header)
           response == [NoResponse EXCEPT !.op = "logout", !.via = header.scheme,
                                          !.token = header.token]
       IN  last' = IF verdict.status # 200
                   THEN [response EXCEPT !.status = verdict.status,
                                         !.message = verdict.message]
                   ELSE [response EXCEPT
                            !.status = 200,
                            !.message =
                                "Logout successful. Please discard your access token.",
                            !.claims = verdict.claims,
                            !.ran = TRUE,
                            !.resCookie = refreshTokenCookie(NoToken)]

\* an administrator deletes a row of the store
DeleteUser(i) ==
    /\ i \in 1 .. Len(users)
    /\ users[i] # NoUser
    /\ users' = [users EXCEPT ![i] = NoUser]
    /\ UNCHANGED <<cvars, rvars, tvars, proc, now>>

InitRenew ==
    /\ accessToken = Null
    /\ location = "/"
    /\ authPc = "unmounted"
    /\ req = [r \in Reqs |-> IdleReq]
    /\ minted = 0
    /\ expiredUpTo = 0
    /\ session = "none"
    /\ refreshFailed = FALSE
    /\ users = <<EarlierUser>>
    /\ proc = [p \in Procs |-> IdleProc]
    /\ now = 0
    /\ config \in {SeparateSecrets, SharedSecret}
    /\ last = NoResponse
    /\ TaskParked

NextRenew ==
    \/ \E p \in Procs, pw \in Passwords :
           Login(p, [email |-> EmailA, password |-> pw])
    \/ \E token \in PresentableTokens : Refresh(token, NoToken)
    \/ Refresh(NoToken, NoToken)
    \/ \E token \in PresentableTokens :
           GetMe([scheme |-> "Bearer", token |-> token])
    \/ \E scheme \in {"none", "Basic"} :
           GetMe([scheme |-> scheme, token |-> NoToken])
    \/ \E i \in 1 .. (MaxProcs + 1) : Deactivate(i)
    \/ \E i \in 1 .. (MaxProcs + 1) : DeleteUser(i)
    \/ \E i \in 1 .. (MaxProcs + 1) : ChangeRole(i)
    \/ Tick

SpecRenew == InitRenew /\ [][NextRenew]_vars

\* POST /auth/refresh with every combination of a cookie and a body
NextRefreshInput ==
    \/ \E cookieToken, bodyToken \in PresentableTokens \cup {NoToken} :
           Refresh(cookieToken, bodyToken)
    \/ \E i \in 1 .. (MaxProcs + 1) : Deactivate(i)
    \/ Tick

SpecRefreshInput == InitRenew /\ [][NextRefreshInput]_vars

\* the five auth routes, with the clock and the store's flags left alone
NextTransport ==
    \/ \E p \in Procs, e \in {EmailA, EmailAUpper} :
           Register(p, [email |-> e, password |-> StrongPassword])
    \/ \E p \in Procs : RegisterCreate(p)
    \/ \E p \in Procs, pw \in Passwords :
           Login(p, [email |-> EmailA, password |-> pw])
    \/ \E token \in PresentableTokens : Refresh(token, NoToken)
    \/ Refresh(NoToken, NoToken)
    \/ \E token \in PresentableTokens :
           GetMe([scheme |-> "Bearer", token |-> token])
    \/ \E token \in PresentableTokens :
           Logout([scheme |-> "Bearer", token |-> token])
    \/ Logout(NoHeader)

SpecTransport == InitRenew /\ [][NextTransport]_vars

(***************************************************************************)
(* Task service: the /tasks routes                                         *)
(***************************************************************************)
\* the response of a task route that succeeded
TaskOk(op, userId, taskId, status, ids) ==
    [op |-> op, userId |-> userId, taskId |-> taskId, status |-> status,
     message |-> "", ids |-> ids]

\* the response errorHandler makes of what a task route threw
TaskFailed(op, userId, taskId, error) ==
    [op |-> op, userId |-> userId, taskId |-> taskId,
     status |-> errorHandler(error).status,
     message |-> errorHandler(error).message, ids |-> {}]

\* getTaskById with the userId compared after the query instead of in it
getTaskByIdAnyOwner(taskId, userId) == findById(taskId)

\* TaskService.getTaskById: the row prisma.task.findFirst finds with
\* where: { id: taskId, userId }, or NoTask where it throws
\* AppError.notFound('Task not found')
getTaskById(taskId, userId) ==
    IF findById(taskId) # NoTask /\ findById(taskId).userId = userId
    THEN findById(taskId)
    ELSE NoTask

\* POST /tasks: createTask; status and completedAt are the column defaults
CreateTask(userId, title) ==
    /\ Len(tasks) < MaxTasks
    /\ tasks' = Append(tasks, [userId |-> userId, title |-> title,
                               status |-> "TODO", completedAt |-> NullDate])
    /\ tres' = TaskOk("create", userId, Len(tasks) + 1, 201, {Len(tasks) + 1})
    /\ UNCHANGED <<cvars, avars, rvars, call>>

\* GET /tasks: getUserTasks
GetTasks(userId) ==
    /\ tres' = TaskOk("list", userId, 0, 200, findMany(userId))
    /\ UNCHANGED <<cvars, avars, rvars, tasks, call>>

\* GET /tasks/stats: getTaskStats; ids are the rows the counts are taken of
GetStats(userId) ==
    /\ tres' = TaskOk("stats", userId, 0, 200, findMany(userId))
    /\ UNCHANGED <<cvars, avars, rvars, tasks, call>>

\* GET /tasks/:id
GetTaskById(userId, taskId) ==
    /\ tres' = IF getTaskById(taskId, userId) = NoTask
               THEN TaskFailed("get", userId, taskId,
                               AppError(404, "Task not found"))
               ELSE TaskOk("get", userId, taskId, 200, {taskId})
    /\ UNCHANGED <<cvars, avars, rvars, tasks, call>>

\* a handler that passed getTaskById and waits for its next query
Await(c, pc, op, userId, taskId, data) ==
    call' = [call EXCEPT ![c] = [pc |-> pc, op |-> op, userId |-> userId,
                                 taskId |-> taskId, data |-> data]]

\* PUT /tasks/:id, up to the write: updateTask checks the owner and builds
\* updateData
UpdateTask(c, userId, taskId, data) ==
    \* the handler takes the lowest slot that is free
    /\ call[c].pc = "idle"
    /\ \A d \in Calls : d < c => call[d].pc # "idle"
    /\ IF getTaskById(taskId, userId) = NoTask
       THEN /\ tres' = TaskFailed("update", userId, taskId,
                                  AppError(404, "Task not found"))
            /\ UNCHANGED call
       ELSE /\ Await(c, "write", "update", userId, taskId,
                     updateData(data, now))
            /\ UNCHANGED tres
    /\ UNCHANGED <<cvars, avars, rvars, tasks>>

\* DELETE /tasks/:id, up to the write
DeleteTask(c, userId, taskId) ==
    \* the handler takes the lowest slot that is free
    /\ call[c].pc = "idle"
    /\ \A d \in Calls : d < c => call[d].pc # "idle"
    /\ IF getTaskById(taskId, userId) = NoTask
       THEN /\ tres' = TaskFailed("delete", userId, taskId,
                                  AppError(404, "Task not found"))
            /\ UNCHANGED call
       ELSE /\ Await(c, "write", "delete", userId, taskId, IdleCall.data)
            /\ UNCHANGED tres
    /\ UNCHANGED <<cvars, avars, rvars, tasks>>

\* PATCH /tasks/:id/toggle, up to the call of updateTask: the status is read
\* and the new one chosen
ToggleTaskStatus(c, userId, taskId) ==
    \* the handler takes the lowest slot that is free
    /\ call[c].pc = "idle"
    /\ \A d \in Calls : d < c => call[d].pc # "idle"
    /\ IF getTaskById(taskId, userId) = NoTask
       THEN /\ tres' = TaskFailed("toggle", userId, taskId,
                                  AppError(404, "Task not found"))
            /\ UNCHANGED call
       ELSE /\ Await(c, "update", "toggle", userId, taskId,
                     [status |-> nextStatus(getTaskById(taskId, userId).status),
                      title |-> Absent])
            /\ UNCHANGED tres
    /\ UNCHANGED <<cvars, avars, rvars, tasks>>

\* toggleTaskStatus, in this.updateTask up to the write
ToggleUpdate(c) ==
    /\ call[c].pc = "update"
    /\ IF getTaskById(call[c].taskId, call[c].userId) = NoTask
       THEN /\ tres' = TaskFailed("toggle", call[c].userId, call[c].taskId,
                                  AppError(404, "Task not found"))
            /\ call' = [call EXCEPT ![c] = IdleCall]
       ELSE /\ Await(c, "write", "toggle", call[c].userId, call[c].taskId,
                     updateData(call[c].data, now))
            /\ UNCHANGED tres
    /\ UNCHANGED <<cvars, avars, rvars, tasks>>

\* prisma.task.update / prisma.task.delete ({ where: { id: taskId } }) and
\* the response
Write(c) ==
    /\ call[c].pc = "write"
    /\ call' = [call EXCEPT ![c] = IdleCall]
    /\ IF findById(call[c].taskId) = NoTask
       THEN \* no row has the id of the where clause: prisma throws P2025
            /\ tres' = TaskFailed(call[c].op, call[c].userId, call[c].taskId,
                                  [name |-> "PrismaClientKnownRequestError",
                                   statusCode |-> 0,
                                   message |-> "Record to update not found."])
            /\ UNCHANGED tasks
       ELSE IF call[c].op = "delete"
       THEN /\ tasks' = [tasks EXCEPT ![call[c].taskId] = NoTask]
            /\ tres' = TaskOk("delete", call[c].userId, call[c].taskId, 204, {})
       ELSE /\ tasks' = [tasks EXCEPT ![call[c].taskId] =
                             updatedRow(@, call[c].data)]
            /\ tres' = TaskOk(call[c].op, call[c].userId, call[c].taskId, 200,
                              {call[c].taskId})
    /\ UNCHANGED <<cvars, avars, rvars>>

\* no identity, no task and no request yet
InitTask == InitAuth /\ users = <<>>

\* a request names in /tasks/:id the id of a row or an id that never is one
NextTask ==
    \/ \E userId \in UserIds : CreateTask(userId, "a")
    \/ \E userId \in UserIds : GetTasks(userId)
    \/ \E userId \in UserIds : GetStats(userId)
    \/ \E userId \in UserIds, taskId \in 1 .. (MaxTasks + 1) :
           \/ GetTaskById(userId, taskId)
           \/ \E c \in Calls, data \in UpdateBodies :
                  UpdateTask(c, userId, taskId, data)
           \/ \E c \in Calls : DeleteTask(c, userId, taskId)
           \/ \E c \in Calls : ToggleTaskStatus(c, userId, taskId)
    \/ \E c \in Calls : ToggleUpdate(c)
    \/ \E c \in Calls : Write(c)

SpecTask == InitTask /\ [][NextTask]_vars

(***************************************************************************)
(* Claims about the renewal coordinator (SpecClient, FairSpecClient)       *)
(***************************************************************************)
\* the replay of request r is in flight
ReplayInFlight(r) == req[r].st = "sent" /\ req[r].retry

\* request r is waiting for the renewal call the interceptor issued for it
AwaitsRenewal(r) == req[r].st = "refreshing"

\* C1: at any moment at most one POST /auth/refresh call is in flight.
C1_SingleFlight == Cardinality(RefreshInFlight) <= 1

\* C2: if every network call eventually settles, every request that was
\* rejected with 401 and waits for its renewal is eventually replayed or
\* rejected, and its replay settles: from some point on no request is waiting
\* for a renewal or a replay (a settled request stays settled, so this says
\* of each request that its wait ends).  Its replay carries the access token
\* its renewal returned, and a request whose renewal failed is rejected
\* without a replay.
C2_EventuallySettled ==
    /\ <>[](\A r \in Reqs : ~AwaitsRenewal(r) /\ ~ReplayInFlight(r))
    /\ [][\A r \in Reqs : req[r].st \in {"ok", "failed"} => req'[r] = req[r]]_vars
    /\ [](\A r \in Reqs :
            /\ ReplayInFlight(r) =>
                  req[r].rres > 0 /\ req[r].hdr = req[r].rres
            /\ req[r].err = -1 => req[r].st = "failed" /\ req[r].nReplay = 0)

\* witness of C2: one request was replayed after a successful renewal and
\* served, another was failed out after a failed renewal
C2_Witness ==
    \E r, s \in Reqs :
        /\ req[r].nReplay = 1 /\ req[r].st = "ok"
        /\ req[s].err = -1 /\ req[s].st = "failed"

\* C3: no request is replayed more than once, and a request whose replay is
\* answered (with 401 or anything else) settles for its caller without a
\* further renewal call.
C3_NoSecondReplay ==
    [][\A r \in Reqs :
          /\ req'[r].nReplay <= 1
          /\ req'[r].nRefresh <= 1
          /\ (ReplayInFlight(r) /\ req'[r] # req[r]) =>
                 req'[r].st \in {"ok", "failed"}]_vars

\* witness of C3: the replay of a request was rejected with 401 and the
\* request was rejected to its caller with that error
C3_Witness ==
    \E r \in Reqs :
        req[r].st = "failed" /\ req[r].err = 401 /\ req[r].nReplay = 1

\* C4: the result of a renewal never replaces, in the in-memory access
\* token, the result of a renewal the server minted later (serials grow in
\* the order of minting); stated for a token whose own request s is still
\* being replayed when the older result of request r arrives.
C4_NoStaleOverwrite ==
    [][\A r, s \in Reqs :
          (/\ AwaitsRenewal(r) /\ req[r].rres > 0 /\ req'[r] # req[r]
           /\ ReplayInFlight(s) /\ req[s].rres = accessToken) =>
              accessToken' >= accessToken]_vars

\* C5: when the renewal call of a request fails, the in-memory token becomes
\* null, the page is sent to /login, and the request is rejected to its
\* caller with the renewal's error, without a replay.
C5_FailedRenewalLogsOut ==
    [][\A r \in Reqs :
          (AwaitsRenewal(r) /\ req[r].rres = -1 /\ req'[r] # req[r]) =>
              /\ accessToken' = Null
              /\ location' = "/login"
              /\ req'[r].st = "failed"
              /\ req'[r].err = -1
              /\ req'[r].nReplay = 0]_vars

\* witness of C5: a renewal failed after an earlier one had stored a token,
\* and the token is gone
C5_Witness ==
    \E r, s \in Reqs :
        /\ req[r].st = "failed" /\ req[r].err = -1
        /\ req[s].nReplay = 1
        /\ accessToken = Null /\ location = "/login"

\* C6: two requests that wait for a renewal at the same time never see
\* different results: one renewed (and replayed), the other failed (and the
\* session logged out).
C6_SameOutcome ==
    \A r, s \in Reqs :
        (AwaitsRenewal(r) /\ AwaitsRenewal(s)
            /\ req[r].rres # 0 /\ req[s].rres # 0) =>
                ((req[r].rres > 0) <=> (req[s].rres > 0))

\* the page issues a POST /auth/refresh in this step
IssuesRefresh == \E r \in Reqs : ~AwaitsRenewal(r) /\ req'[r].st = "refreshing"

\* C7: once a POST /auth/refresh of the session has failed, the page issues
\* no further POST /auth/refresh until a login or registration succeeds.
C7_NoSecondRenewal == [][refreshFailed => ~IssuesRefresh]_vars

(***************************************************************************)
(* Claims about the credential issuer (SpecAuth)                           *)
(***************************************************************************)
\* the body request p carried
BodyOf(p) == [email |-> proc[p].email, password |-> proc[p].password]

\* request p was a login that passed validation, found the identity of its
\* email, and carried another password than the registered one
WrongPasswordLogin(p) ==
    /\ proc[p].op = "login" /\ proc[p].pc = "done" /\ loginSchema(BodyOf(p))
    /\ proc[p].user # NoUser
    /\ ~verifyPassword(proc[p].password, proc[p].user.password)

\* request q was a login that passed validation with an unregistered email
UnknownEmailLogin(q) ==
    /\ proc[q].op = "login" /\ proc[q].pc = "done" /\ loginSchema(BodyOf(q))
    /\ proc[q].user = NoUser

\* C8 as stated: for every registered identity, a login with its email and
\* a wrong password gets the same status and message as a login with an
\* unregistered email.
C8_SameFailure ==
    \A p, q \in Procs :
        (WrongPasswordLogin(p) /\ UnknownEmailLogin(q)) =>
            /\ proc[p].status = proc[q].status
            /\ proc[p].message = proc[q].message

\* C8: for every registered identity whose account is active, a login with
\* its email and a wrong password gets the same status (401) and message as
\* a login with an unregistered email.
C8_SameFailureActive ==
    \A p, q \in Procs :
        (WrongPasswordLogin(p) /\ proc[p].user.isActive /\ UnknownEmailLogin(q)) =>
            /\ proc[p].status = 401
            /\ proc[p].status = proc[q].status
            /\ proc[p].message = proc[q].message

\* witness of C8: a wrong-password login for an active identity and a login
\* with an unregistered email have both been answered
C8_Witness ==
    \E p, q \in Procs :
        WrongPasswordLogin(p) /\ proc[p].user.isActive /\ UnknownEmailLogin(q)

\* C9: no two identities of the store have the same email, and a valid
\* registration that creates no identity (its email exists, or a concurrent
\* registration inserts it first) is answered 409.
C9_LoserGetsConflict ==
    /\ \A i, j \in 1 .. Len(users) : users[i].email = users[j].email => i = j
    /\ \A p \in Procs :
           (/\ proc[p].op = "register" /\ proc[p].pc = "done"
            /\ registerSchema(BodyOf(p))
            /\ proc[p].status # 201) => proc[p].status = 409

\* C11: every email of the identity store is stored normalized (trimmed and
\* lowercased, the value emailSchema parses it to), and no two identities
\* have emails that are equal after normalization.
C11_NormalizedEmails ==
    /\ \A i \in 1 .. Len(users) :
           users[i].email = emailSchemaValue(users[i].email)
    /\ \A i, j \in 1 .. Len(users) :
           emailSchemaValue(users[i].email) = emailSchemaValue(users[j].email)
               => i = j

\* C10: a registration with a valid email and a strong password is answered
\* 201 unless its email is registered; a registration answered 201 has
\* created exactly one identity with its email, and verifyAccessToken on the
\* returned access token, until it expires, returns claims whose userId,
\* email and role are those of that identity.
C10_RegisterThenVerify ==
    \A p \in Procs :
        (proc[p].op = "register" /\ proc[p].pc = "done") =>
            /\ (registerSchema(BodyOf(p)) /\ proc[p].status # 201) =>
                   \E i \in 1 .. Len(users) : users[i].email = proc[p].email
            /\ proc[p].status = 201 =>
                   LET u == proc[p].user
                       tok == proc[p].accessToken
                   IN  /\ registerSchema(BodyOf(p))
                       /\ u.id \in 1 .. Len(users)
                       /\ u.email = proc[p].email
                       /\ {i \in 1 .. Len(users) : users[i].email = proc[p].email}
                              = {u.id}
                       /\ users[u.id].role = u.role
                       /\ now < tok.exp =>
                              /\ verifyAccessToken(tok).status = 200
                              /\ verifyAccessToken(tok).claims.userId = u.id
                              /\ verifyAccessToken(tok).claims.email = u.email
                              /\ verifyAccessToken(tok).claims.role = u.role
                       /\ proc[p].verdict.status = 200 =>
                              /\ proc[p].verdict.claims.userId = u.id
                              /\ proc[p].verdict.claims.email = u.email
                              /\ proc[p].verdict.claims.role = u.role

\* witness of C10: the access token of a registration has been verified
\* and accepted
C10_Witness ==
    \E p \in Procs :
        /\ proc[p].op = "register" /\ proc[p].status = 201
        /\ proc[p].verdict.status = 200
        /\ proc[p].verdict.claims.userId = proc[p].user.id

(***************************************************************************)
(* Claims about renewal and the access check (SpecRenew)                   *)
(***************************************************************************)
\* the renewal secret signed the token, and the token has not expired
ValidRenewalToken(token) == token.key = RefreshSecret /\ now < token.exp

\* the step is a POST /auth/refresh that carried a token
RefreshStep == last' # last /\ last'.op = "refresh" /\ last'.via # "none"

C13_SameClaims ==
    \A token \in PresentableTokens :
        refreshToken(token).error = NoError =>
            /\ refreshToken(token).accessToken.userId = token.userId
            /\ refreshToken(token).accessToken.email = token.email
            /\ refreshToken(token).accessToken.role = token.role

\* C13: the access token renew returns carries the subject id of the
\* renewal token that was presented, and the email and role of that
\* identity's row as it is in the store at the time of the call; these are
\* the email and role of the renewal token if the row has them still.
C13_RowClaims ==
    \A token \in PresentableTokens :
        refreshToken(token).error = NoError =>
            LET user == findUniqueById(token.userId)
                renewed == refreshToken(token).accessToken
            IN  /\ renewed.userId = token.userId
                /\ renewed.email = user.email
                /\ renewed.role = user.role
                /\ (user.email = token.email /\ user.role = token.role) =>
                       (renewed.email = token.email /\ renewed.role = token.role)

\* witness of C13: a renewal returned an access token for the identity of
\* the renewal token
C13_Witness ==
    /\ last.op = "refresh" /\ last.status = 200
    /\ last.accessToken.userId = last.token.userId
    /\ last.accessToken.role = last.token.role

\* the token carries a good signature of the renewal key and is past expiry
ExpiredRenewalToken(token) == token.key = RefreshSecret /\ now >= token.exp

\* C14: renew answers a correctly signed but expired renewal token with
\* 'Refresh token has expired', and answers 'Invalid refresh token' only to
\* a malformed or wrongly signed token (stated where the two keys differ).
C14_ExpiredToldApart ==
    \A token \in PresentableTokens :
        config = SeparateSecrets =>
        /\ ExpiredRenewalToken(token) =>
               refreshToken(token).error = ExpiredRefreshError
        /\ (refreshToken(token).error = InvalidRefreshError
               /\ findUniqueById(token.userId) # NoUser) =>
               token.key # RefreshSecret

\* the verdicts of verifyAccessToken
ClaimsVerdict(token) == [status |-> 200, message |-> "", claims |-> token]
ExpiredVerdict ==
    [status |-> 401, message |-> "Access token has expired", claims |-> NoToken]
InvalidVerdict ==
    [status |-> 401, message |-> "Invalid access token", claims |-> NoToken]

\* C15: verifyAccess returns the claims of a token that carries the
\* signature of the access key and is not past its expiry, fails with
\* 'expired' exactly when the signature is good and the expiry has passed,
\* and with 'invalid' for every other token; its verdict on a token is the
\* same whatever happens to the identity store.
C15_VerifyAccess ==
    /\ [](\A token \in PresentableTokens :
            LET verdict == verifyAccessToken(token)
            IN  /\ (token.key = JwtSecret /\ now < token.exp) =>
                       verdict = ClaimsVerdict(token)
                /\ verdict = ExpiredVerdict <=>
                       (token.key = JwtSecret /\ now >= token.exp)
                /\ token.key # JwtSecret => verdict = InvalidVerdict)
    /\ [][now' = now =>
             \A token \in PresentableTokens :
                 verifyAccessToken(token)' = verifyAccessToken(token)]_vars

\* witness of C15: GET /auth/me was answered with the 'expired' verdict for
\* a token of the access key, and the identity store has changed since the
\* start
C15_Witness ==
    /\ last.op = "me" /\ last.message = "Access token has expired"
    /\ last.token.key = JwtSecret /\ now >= last.token.exp
    /\ users # <<EarlierUser>>

\* the renewal tokens and the access tokens the server has issued
RenewalTokens ==
    ({proc[p].refreshToken : p \in Procs} \ {NoToken}) \cup {EarlierRefreshToken}
AccessTokens ==
    (({proc[p].accessToken : p \in Procs} \cup {last.accessToken}) \ {NoToken})
        \cup {EarlierAccessToken}

\* C16: the two token types are not interchangeable: verifyAccess accepts
\* no renewal token and renew accepts no access token, in every
\* configuration the server starts with.
C16_NotInterchangeable ==
    /\ \A token \in RenewalTokens : verifyAccessToken(token).status # 200
    /\ \A token \in AccessTokens : refreshToken(token).error # NoError

\* the Authorization headers a request can carry
Headers ==
    {[scheme |-> "Bearer", token |-> token] : token \in PresentableTokens}
        \cup {[scheme |-> scheme, token |-> NoToken] : scheme \in {"none", "Basic"}}

\* the step is a GET /auth/me
MeStep == last' # last /\ last'.op = "me"

\* C17: the handler behind authenticate runs only for a Bearer header whose
\* token verifyAccess accepts, and request.user is then that token's
\* claims; a missing or non-Bearer header yields 401 'No token provided'
\* and a token verifyAccess refuses yields the verifier's error, the handler
\* not running.
C17_Authenticate ==
    /\ [](\A header \in Headers :
            LET verdict == authenticate(header)
            IN  /\ header.scheme # "Bearer" =>
                       /\ verdict.status = 401
                       /\ verdict.message = "No token provided"
                /\ header.scheme = "Bearer" =>
                       verdict = verifyAccessToken(header.token)
                /\ verdict.status = 200 => verdict.claims = header.token)
    /\ [][MeStep =>
             LET header == [scheme |-> last'.via, token |-> last'.token]
             IN  /\ last'.ran <=> (header.scheme = "Bearer"
                                    /\ verifyAccessToken(header.token).status = 200)
                 /\ last'.ran => last'.claims = header.token
                 /\ ~last'.ran =>
                        /\ last'.status = authenticate(header).status
                        /\ last'.message = authenticate(header).message
                        /\ last'.status = 401
                        /\ last'.claims = NoToken]_vars

\* witness of C17: the handler of GET /auth/me ran for a Bearer token that
\* the server issued in this run, with that token's claims
C17_Witness ==
    /\ last.op = "me" /\ last.ran /\ last.via = "Bearer"
    /\ last.claims = last.token
    /\ \E p \in Procs : last.token = proc[p].accessToken

\* the row of the store with this id has its active flag false
Deactivated(id) == findUniqueById(id) # NoUser /\ ~findUniqueById(id).isActive

\* request p is answered in this step as a POST /auth/login with the email
\* of a deactivated identity
LoginStepDeactivated(p) ==
    /\ proc'[p] # proc[p] /\ proc'[p].op = "login"
    /\ Deactivated(findUnique(proc'[p].email).id)

\* the step answers a POST /auth/refresh that carried a token with the
\* signature of the renewal key for a deactivated identity
RefreshStepDeactivated ==
    /\ RefreshStep /\ last'.token.key = RefreshSecret
    /\ Deactivated(last'.token.userId)

RenewedBefore(token) == ReturnedBefore(token) # NoToken

\* C19: the response of POST /auth/refresh sets no cookie and returns only
\* an access token, the step changes neither the identity store nor the
\* tokens issued by login, and a renewal token that a renew has accepted is
\* accepted again as long as jwt.verify accepts it and its identity is in
\* the store and active.
C19_NeverRotated ==
    /\ [][RefreshStep =>
             /\ last'.setCookie = NoToken
             /\ last'.status = 200 => last'.accessToken.key = JwtSecret
             /\ users' = users /\ proc' = proc]_vars
    /\ [](\A token \in PresentableTokens :
            LET user == findUniqueById(token.userId)
            IN  (RenewedBefore(token) /\ ValidRenewalToken(token)
                    /\ user # NoUser /\ user.isActive) =>
                   refreshToken(token).error = NoError)

\* witness of C19: a renew accepted the token that the renew before it had
\* accepted, and set no cookie
C19_Witness ==
    /\ last.op = "refresh" /\ last.status = 200
    /\ last.before # NoToken
    /\ last.setCookie = NoToken
    /\ last.token \in RenewalTokens

\* C20: of two renew calls in succession with the same renewal token, the
\* second returns an access token other than the one the first returned.
C20_DistinctTokens ==
    (last.op = "refresh" /\ last.status = 200 /\ last.before # NoToken) =>
        /\ last.accessToken # last.before
        /\ last.accessToken.iat # last.before.iat

\* ---------------------------------------------------------------------
\* Claims on input validation (SpecAuth)
\* ---------------------------------------------------------------------

\* request p was answered after its body failed the schema of its route
RejectedByValidation(p) ==
    /\ proc[p].pc = "done"
    /\ \/ proc[p].op = "register" /\ ~registerSchema(BodyOf(p))
       \/ proc[p].op = "login" /\ ~loginSchema(BodyOf(p))

\* C21: POST /auth/register and POST /auth/login answer a request whose body
\* fails validation with 400, and the step leaves the identity store as it
\* was.
C21_ValidationIs400 ==
    /\ [](\A p \in Procs : RejectedByValidation(p) => proc[p].status = 400)
    /\ [][\A p \in Procs :
             (proc'[p] # proc[p] /\ RejectedByValidation(p)') =>
                 users' = users]_vars

\* ---------------------------------------------------------------------
\* Claims on the requests and responses of the auth routes
\* ---------------------------------------------------------------------

\* the step answers a POST /auth/refresh
RefreshAnswered == last' # last /\ last'.op = "refresh"

\* C22: POST /auth/refresh renews with the cookie's token whenever the
\* request has one and with the body's token only otherwise; with neither it
\* answers 400 'Refresh token is required' and renew is not called.
C22_CookieFirst ==
    [][RefreshAnswered =>
          /\ (last'.cookie # NoToken =>
                /\ last'.token = last'.cookie
                /\ last'.status = IF refreshToken(last'.cookie).error = NoError
                                  THEN 200
                                  ELSE refreshToken(last'.cookie).error.statusCode
                /\ last'.accessToken = refreshToken(last'.cookie).accessToken)
          /\ (last'.cookie = NoToken /\ last'.body # NoToken =>
                /\ last'.token = last'.body
                /\ last'.status = IF refreshToken(last'.body).error = NoError
                                  THEN 200
                                  ELSE refreshToken(last'.body).error.statusCode
                /\ last'.accessToken = refreshToken(last'.body).accessToken)
          /\ (last'.cookie = NoToken /\ last'.body = NoToken =>
                /\ last'.status = 400
                /\ last'.message = "Refresh token is required"
                /\ last'.token = NoToken
                /\ last'.accessToken = NoToken)]_vars

\* witness of C22: a request whose cookie held a token renew accepts and
\* whose body held a token renew refuses was answered 200
C22_Witness ==
    /\ last.op = "refresh" /\ last.status = 200
    /\ last.cookie # NoToken /\ last.body # NoToken
    /\ refreshToken(last.cookie).error = NoError
    /\ refreshToken(last.body).error # NoError

\* a token generateAccessToken makes, and one generateRefreshToken makes
IsAccessToken(token) ==
    token # NoToken /\ token.key = JwtSecret /\ token.exp - token.iat = AccessTtl
IsRenewalToken(token) ==
    token # NoToken /\ token.key = RefreshSecret
        /\ token.exp - token.iat = RefreshTtl

\* the responses of register and login, and the latest response of refresh,
\* me and logout: the `data` of the body and the cookie
Responses ==
    {[op |-> proc[p].op, status |-> proc[p].status, json |-> proc[p].json,
      resCookie |-> proc[p].resCookie] : p \in Procs}
        \cup {[op |-> last.op, status |-> last.status, json |-> last.json,
               resCookie |-> last.resCookie]}

\* the tokens in the `data` of a body
BodyTokens(json) == {json[field] : field \in DOMAIN json \ {"user"}} \ {NoToken}

Hashes == {users[i].password : i \in 1 .. Len(users)} \ {<<>>}

\* the tokens a response carries, in its body or its cookie
TokensOf(response) ==
    BodyTokens(response.json) \cup ({response.resCookie.value} \ {NoToken})

\* C24: no response of register, login, refresh or /auth/me holds a password
\* hash: its `user` has no password field and no field with a stored hash
\* as its value, and neither has a token it carries.
C24_NoHashLeaves ==
    \A response \in Responses :
        /\ "user" \in DOMAIN response.json =>
               /\ DOMAIN response.json.user \subseteq
                      {"id", "email", "role", "isActive"}
               /\ response.json.user.email \notin Hashes
        /\ \A token \in TokensOf(response) :
               /\ "password" \notin DOMAIN token
               /\ token.email \notin Hashes

\* witness of C24: a registration was answered 201 with its user, and
\* GET /auth/me was answered 200 with the user of that identity
C24_Witness ==
    \E p \in Procs :
        /\ proc[p].op = "register" /\ proc[p].status = 201
        /\ last.op = "me" /\ last.status = 200
        /\ last.json.user.id = proc[p].json.user.id
        /\ findUniqueById(last.json.user.id).password \in Hashes

\* ---------------------------------------------------------------------
\* Claims on the writers of the in-memory access token (SpecClient)
\* ---------------------------------------------------------------------

\* the step is the interceptor's continuation of the renewal call of
\* request r
RenewalSettles(r) == AwaitsRenewal(r) /\ req'[r].st # "refreshing"

\* C25: the in-memory access token is written by the renewal path of the
\* response interceptor only, and it is not written by anything else while
\* a renewal call is in flight.
C25_SingleWriter ==
    [][accessToken' # accessToken =>
          /\ \E r \in Reqs : RenewalSettles(r)
          /\ \A r \in Reqs : AwaitsRenewal(r) => RenewalSettles(r)]_vars

\* C26: once the page is logged out, the in-memory access token stays null
\* until a login or a register succeeds.
C26_StaysLoggedOut ==
    [][(accessToken = Null /\ location = "/login" /\ accessToken' # Null) =>
          \E r \in Reqs : /\ req[r].kind = "auth" /\ req[r].st = "sent"
                          /\ req'[r].st = "ok"]_vars

(***************************************************************************)
(* Task service: claims                                                    *)
(***************************************************************************)
\* C27: get, update, delete and toggle succeed only for the user the task
\* row belongs to; any other caller is answered 404 'Task not found' and
\* no row changes; list and stats cover exactly the rows of the caller
C27_TaskIsolation ==
    [][ /\ ((/\ (tres' # tres \/ tasks' # tasks)
             /\ tres'.op \in {"get", "update", "delete", "toggle"}
             /\ tres'.status \in {200, 204})
               => (/\ findById(tres'.taskId) # NoTask
                   /\ findById(tres'.taskId).userId = tres'.userId))
        /\ ((/\ tres'.op \in {"get", "update", "delete", "toggle"}
             /\ findById(tres'.taskId) # NoTask
             /\ findById(tres'.taskId).userId # tres'.userId)
               => (/\ tres'.status = 404
                   /\ tres'.message = "Task not found"
                   /\ tasks' = tasks))
        /\ ((tres' # tres /\ tres'.op \in {"list", "stats"})
               => (/\ tres'.status = 200
                   /\ tasks' = tasks
                   /\ tres'.ids = {i \in 1 .. Len(tasks) :
                                      /\ tasks[i] # NoTask
                                      /\ tasks[i].userId = tres'.userId}))
      ]_vars

\* a user was refused a change to a row of another user, and a list left
\* out a row of another user
C27_Witness ==
    /\ tres.op \in {"update", "delete", "toggle"}
    /\ tres.status = 404
    /\ findById(tres.taskId) # NoTask
    /\ findById(tres.taskId).userId # tres.userId

\* the handler in slot c writes its update to a row that is there
Updates(c) ==
    /\ call[c].pc = "write"
    /\ call'[c].pc = "idle"
    /\ call[c].op \in {"update", "toggle"}
    /\ findById(call[c].taskId) # NoTask

\* C28: a row has a completedAt exactly when its status is COMPLETED; an
\* update to COMPLETED sets it, an update to another status clears it, and
\* an update without a status leaves it and the status as they are
C28_CompletedAt ==
    /\ [](\A i \in 1 .. Len(tasks) :
             tasks[i] # NoTask =>
                 (tasks[i].completedAt # NullDate
                      <=> tasks[i].status = "COMPLETED"))
    /\ [][\A c \in Calls :
             Updates(c) =>
                 (/\ (call[c].data.status = "COMPLETED"
                         => tasks'[call[c].taskId].completedAt # NullDate)
                  /\ (call[c].data.status \in TaskStatusEnum \ {"COMPLETED"}
                         => tasks'[call[c].taskId].completedAt = NullDate)
                  /\ (call[c].data.status = Absent
                         => (/\ tasks'[call[c].taskId].completedAt
                                    = tasks[call[c].taskId].completedAt
                             /\ tasks'[call[c].taskId].status
                                    = tasks[call[c].taskId].status)))
        ]_vars

\* an update without a status was written to a completed row
C28_Witness ==
    /\ tres.op = "update"
    /\ tres.status = 200
    /\ findById(tres.taskId).status = "COMPLETED"
    /\ findById(tres.taskId).completedAt # NullDate
    /\ findById(tres.taskId).title = "b"

\* C29: the write of a toggle moves the status of the row one step along
\* TODO -> IN_PROGRESS -> COMPLETED -> TODO (ARCHIVED -> TODO) and leaves
\* userId and title as they are
C29_ToggleCycle ==
    [][\A c \in Calls :
          (Updates(c) /\ call[c].op = "toggle") =>
              (/\ tasks'[call[c].taskId].status
                      = nextStatus(tasks[call[c].taskId].status)
               /\ tasks'[call[c].taskId].userId = tasks[call[c].taskId].userId
               /\ tasks'[call[c].taskId].title = tasks[call[c].taskId].title)
      ]_vars

\* C30: an update, delete or toggle whose row was deleted between its
\* getTaskById and its write is answered 404 'Task not found'
C30_DeletedIsNotFound ==
    [][\A c \in Calls :
          (/\ call[c].pc = "write"
           /\ call'[c].pc = "idle"
           /\ findById(call[c].taskId) = NoTask) =>
              (/\ tres'.op = call[c].op
               /\ tres'.status = 404
               /\ tres'.message = "Task not found")
      ]_vars
====
